---- MODULE Spec2Model ----
(***************************************************************************)
(* Model of app.py: a Flask backend that forwards chat messages to an      *)
(* Azure OpenAI chat-completions deployment.                               *)
(*                                                                         *)
(* The module body of app.py runs once (the startup self-test that binds   *)
(* azure_connected), then app.run serves four routes.  The server handles  *)
(* requests on concurrent threads, so a handler that blocks in             *)
(* requests.post is modelled in two steps: the step that issues the POST   *)
(* and the step that receives the upstream's answer.                       *)
(*                                                                         *)
(* Python strings are sequences of tokens, so that f-string formatting is  *)
(* concatenation and "contains" is a real test.                            *)
(***************************************************************************)
EXTENDS Integers, Sequences, FiniteSets, TLC

\* ------------------------------------------------------------------ bounds
NumThreads == 2

Threads == 1..NumThreads

\* ------------------------------------------------------- Python values
Str(toks) == [t |-> "str", s |-> toks]
None == [t |-> "None", s |-> <<>>]

NoExc == [type |-> "-", msg |-> <<>>]
Exc(type, msg) == [type |-> type, msg |-> msg]

\* outcome of a call: either a returned value or a raised exception
Return(v) == [ok |-> TRUE, value |-> v, exc |-> NoExc]
Raise(e) == [ok |-> FALSE, value |-> None, exc |-> e]

\* ------------------------------------------ what the upstream can answer
\* net: transport result of requests.post; status: HTTP status;
\* json / choices / message / content: shape of the response body.
Up(net, status, json, choices, message, content) ==
    [net |-> net, status |-> status, json |-> json, choices |-> choices,
     message |-> message, content |-> content]

UpOK == Up("ok", 200, "object", "one", "present", "text")
UpEmptyContent == Up("ok", 200, "object", "one", "present", "empty")
UpNullContent == Up("ok", 200, "object", "one", "present", "null")
UpConnRefused == Up("ConnectionError", 0, "-", "-", "-", "-")
UpTimeout == Up("Timeout", 0, "-", "-", "-", "-")
UpHTTP503 == Up("ok", 503, "object", "absent", "-", "-")
UpBadJSON == Up("ok", 200, "invalid", "-", "-", "-")
UpArrayBody == Up("ok", 200, "array", "-", "-", "-")
UpNoChoices == Up("ok", 200, "object", "absent", "-", "-")
UpEmptyChoices == Up("ok", 200, "object", "empty", "-", "-")
UpNoMessage == Up("ok", 200, "object", "one", "absent", "-")
UpNoContent == Up("ok", 200, "object", "one", "present", "absent")

Upstreams ==
    {UpOK, UpEmptyContent, UpNullContent, UpConnRefused, UpTimeout, UpHTTP503,
     UpBadJSON, UpArrayBody, UpNoChoices, UpEmptyChoices, UpNoMessage,
     UpNoContent}

NoUp == Up("-", 0, "-", "-", "-", "-")

\* the two families of requests releases: response.json() on an undecodable
\* body raises requests.exceptions.JSONDecodeError (a RequestException) since
\* 2.27, and the json module's ValueError before that.
RequestsBuilds == {"2.27+", "pre-2.27"}

JSONDecodeErrorType(build) ==
    IF build = "2.27+" THEN "requests.JSONDecodeError" ELSE "json.JSONDecodeError"

\* subclasses of requests.exceptions.RequestException
RequestExceptionTypes ==
    {"ConnectionError", "Timeout", "HTTPError", "requests.JSONDecodeError"}

ContentValue(content) ==
    CASE content = "text" -> Str(<<"Try X">>)
      [] content = "empty" -> Str(<<>>)
      [] OTHER -> None

\* lines 70-74: requests.post, raise_for_status, response.json(),
\* result['choices'][0]['message']['content']
try_body(up, build) ==
    IF up.net # "ok" THEN Raise(Exc(up.net, <<up.net>>))
    ELSE IF up.status >= 400 THEN Raise(Exc("HTTPError", <<"Server Error">>))
    ELSE IF up.json = "invalid"
        THEN Raise(Exc(JSONDecodeErrorType(build), <<"Expecting value">>))
    ELSE IF up.json = "array"
        THEN Raise(Exc("TypeError", <<"list indices must be integers">>))
    ELSE IF up.choices = "absent" THEN Raise(Exc("KeyError", <<"'choices'">>))
    ELSE IF up.choices = "empty"
        THEN Raise(Exc("IndexError", <<"list index out of range">>))
    ELSE IF up.message = "absent" THEN Raise(Exc("KeyError", <<"'message'">>))
    ELSE IF up.content = "absent" THEN Raise(Exc("KeyError", <<"'content'">>))
    ELSE Return(ContentValue(up.content))

\* lines 76-84: the except clauses, in order
except_clauses(e) ==
    IF e.type \in RequestExceptionTypes
        THEN Exc("Exception", <<"Network error: ">> \o e.msg)
    ELSE IF e.type = "KeyError"
        THEN Exc("Exception", <<"Invalid response format from Azure OpenAI">>)
    ELSE e

\* lines 50-84: the result of one invocation, given the upstream's answer
call_azure_openai(up, build) ==
    LET r == try_body(up, build)
    IN IF r.ok THEN r ELSE Raise(except_clauses(r.exc))

\* ------------------------------------------------------ request bodies
Body(json, message) == [json |-> json, message |-> message]
NoBody == Body("-", "-")
BodyText == Body("object", "text")
BodyNoMessage == Body("object", "absent")
BodyArray == Body("array", "-")
BodyNotJSON == Body("invalid", "-")

ChatBodies == {BodyText, BodyNoMessage, BodyArray, BodyNotJSON}

\* a plausible slip: request.json['message'], which raises when the key is absent
get_message_strict(body) ==
    IF body.json = "invalid" THEN Raise(Exc("BadRequest", <<"400 Bad Request">>))
    ELSE IF body.json = "array"
        THEN Raise(Exc("TypeError", <<"list indices must be integers">>))
    ELSE IF body.message = "absent" THEN Raise(Exc("KeyError", <<"'message'">>))
    ELSE Return(Str(<<"recommend a comedy">>))

\* line 112: request.json.get('message', ''); a body that is not JSON makes
\* request.json raise, a JSON body that is not an object has no get
get_message(body) ==
    IF body.json = "invalid" THEN Raise(Exc("BadRequest", <<"400 Bad Request">>))
    ELSE IF body.json = "array"
        THEN Raise(Exc("AttributeError", <<"'list' object has no attribute 'get'">>))
    ELSE IF body.message = "absent" THEN Return(Str(<<>>))
    ELSE Return(Str(<<"recommend a comedy">>))

TEST_PROMPT == Str(<<"What are 2 popular movies on Netflix?">>)

\* ---------------------------------------------------------- responses
Resp(code, status, success, azure, text) ==
    [code |-> code, status |-> status, success |-> success,
     azure_openai |-> azure, text |-> text]
NoResp == Resp(0, "-", "-", "-", None)

\* lines 100, 137
ConnectedText(flag) == IF flag = "True" THEN "Connected" ELSE "Not connected"

NOT_CONNECTED_REPLY ==
    Str(<<"Azure OpenAI is not connected. Please check your configuration.">>)

\* lines 107-110
chat_not_connected == Resp(500, "error", "-", "-", NOT_CONNECTED_REPLY)

\* a plausible slip: the reply is left out of the success payload
chat_success_noreply(bot_reply) == Resp(200, "success", "-", "-", None)

\* lines 121-124
chat_success(bot_reply) == Resp(200, "success", "-", "-", bot_reply)

\* a plausible slip: the f-string without the exception text
chat_except_generic(e) ==
    Resp(500, "error", "-", "-",
         Str(<<"I'm having trouble connecting to the movie database: ">>))

\* lines 126-131
chat_except(e) ==
    Resp(500, "error", "-", "-",
         Str(<<"I'm having trouble connecting to the movie database: ">> \o e.msg))

\* lines 97-101
home_response(flag) ==
    Resp(200, "success", "-", ConnectedText(flag),
         Str(<<"Movie Recommendation Backend is running!">>))

\* a plausible slip: the health route reports a constant
health_response_stale(flag) ==
    Resp(200, "Backend is running!", "-", "Connected", None)

\* lines 135-139
health_response(flag) ==
    Resp(200, "Backend is running!", "-", ConnectedText(flag), None)

\* lines 146-155
test_response(r) ==
    IF r.ok THEN Resp(200, "-", "True", "-", r.value)
    ELSE Resp(500, "-", "False", "-", Str(r.exc.msg))

\* ------------------------------------------------------------- state
VARIABLES
    phase,            \* position of the main module: "import", "selftest",
                      \* "loaded", "serving"
    azure_connected,  \* "unbound" until line 90/93 binds it, then "True"/"False"
    flagWrites,       \* number of assignments to azure_connected
    selfTest,         \* how the startup call ended: "pending", "returned", "raised"
    requests_build,   \* which requests release is installed
    selfTestPosts,    \* number of requests.post calls issued by the self-test
    thr               \* per server thread: the request it is handling; calls counts
                      \* the requests.post calls issued for that request

vars == <<phase, azure_connected, flagWrites, selfTest, requests_build, selfTestPosts, thr>>

Idle ==
    [route |-> "-", stage |-> "idle", body |-> NoBody, msg |-> None,
     calls |-> 0, up |-> NoUp, resp |-> NoResp]

Routes == {"/", "/api/chat", "/api/health", "/api/test"}

Init ==
    /\ phase = "import"
    /\ azure_connected = "unbound"
    /\ flagWrites = 0
    /\ selfTest = "pending"
    /\ requests_build \in RequestsBuilds
    /\ selfTestPosts = 0
    /\ thr = [i \in Threads |-> Idle]

\* ------------------------------------------------------------ startup
\* line 88: the self-test call is issued
StartupCall ==
    /\ phase = "import"
    /\ phase' = "selftest"
    /\ selfTestPosts' = selfTestPosts + 1
    /\ UNCHANGED <<azure_connected, flagWrites, selfTest, requests_build, thr>>

\* a plausible slip: the except branch also binds True
StartupDone_optimistic(up) ==
    /\ phase = "selftest"
    /\ LET r == call_azure_openai(up, requests_build)
       IN selfTest' = IF r.ok THEN "returned" ELSE "raised"
    /\ azure_connected' = "True"
    /\ flagWrites' = flagWrites + 1
    /\ phase' = "loaded"
    /\ UNCHANGED <<requests_build, selfTestPosts, thr>>

\* lines 87-93: the self-test returns or raises; azure_connected is bound
StartupDone(up) ==
    /\ phase = "selftest"
    /\ LET r == call_azure_openai(up, requests_build)
       IN /\ selfTest' = IF r.ok THEN "returned" ELSE "raised"
          /\ azure_connected' = IF r.ok THEN "True" ELSE "False"
    /\ flagWrites' = flagWrites + 1
    /\ phase' = "loaded"
    /\ UNCHANGED <<requests_build, selfTestPosts, thr>>

\* lines 157-161: app.run starts serving
AppRun ==
    /\ phase = "loaded"
    /\ phase' = "serving"
    /\ UNCHANGED <<azure_connected, flagWrites, selfTest, requests_build, selfTestPosts, thr>>

\* ----------------------------------------------------------- requests
\* a request is dispatched to a free thread (route decorators, lines 95-141)
Accept(i, route, body) ==
    /\ phase = "serving"
    /\ thr[i].stage \in {"idle", "done"}
    /\ IF route = "/api/chat" THEN body \in ChatBodies ELSE body = NoBody
    /\ thr' = [thr EXCEPT ![i] = [Idle EXCEPT !.route = route, !.stage = "start",
                                              !.body = body]]
    /\ UNCHANGED <<phase, azure_connected, flagWrites, selfTest, requests_build, selfTestPosts>>

Finish(i, resp) ==
    thr' = [thr EXCEPT ![i].stage = "done", ![i].resp = resp]

\* lines 95-101
home(i) ==
    /\ thr[i].stage = "start" /\ thr[i].route = "/"
    /\ Finish(i, home_response(azure_connected))
    /\ UNCHANGED <<phase, azure_connected, flagWrites, selfTest, requests_build, selfTestPosts>>

\* lines 133-139
health_check(i) ==
    /\ thr[i].stage = "start" /\ thr[i].route = "/api/health"
    /\ Finish(i, health_response(azure_connected))
    /\ UNCHANGED <<phase, azure_connected, flagWrites, selfTest, requests_build, selfTestPosts>>

\* a plausible slip: the connectivity check of lines 106-110 is missing
chat_call_unguarded(i) ==
    /\ thr[i].stage = "start" /\ thr[i].route = "/api/chat"
    /\ LET m == get_message(thr[i].body)
       IN IF ~m.ok
            THEN Finish(i, chat_except(m.exc))
            ELSE thr' = [thr EXCEPT ![i].stage = "awaiting",
                                    ![i].msg = m.value,
                                    ![i].calls = @ + 1]
    /\ UNCHANGED <<phase, azure_connected, flagWrites, selfTest, requests_build, selfTestPosts>>

\* lines 105-117 (and 126-131 when reading the body raises): up to the point
\* where requests.post has been issued
chat_call(i) ==
    /\ thr[i].stage = "start" /\ thr[i].route = "/api/chat"
    /\ IF azure_connected # "True"
         THEN Finish(i, chat_not_connected)
         ELSE LET m == get_message(thr[i].body)
              IN IF ~m.ok
                   THEN Finish(i, chat_except(m.exc))
                   ELSE thr' = [thr EXCEPT ![i].stage = "awaiting",
                                           ![i].msg = m.value,
                                           ![i].calls = @ + 1]
    /\ UNCHANGED <<phase, azure_connected, flagWrites, selfTest, requests_build, selfTestPosts>>

\* a plausible change: one retry of a failed completion call
chat_return_retry(i, up) ==
    /\ thr[i].stage = "awaiting" /\ thr[i].route = "/api/chat"
    /\ LET r == call_azure_openai(up, requests_build)
       IN IF ~r.ok /\ thr[i].calls < 2
            THEN thr' = [thr EXCEPT ![i].calls = @ + 1]
            ELSE thr' = [thr EXCEPT ![i].stage = "done", ![i].up = up,
                                    ![i].resp = IF r.ok THEN chat_success(r.value)
                                                ELSE chat_except(r.exc)]
    /\ UNCHANGED <<phase, azure_connected, flagWrites, selfTest, requests_build, selfTestPosts>>

\* lines 117-131: the completion call returns or raises
chat_return(i, up) ==
    /\ thr[i].stage = "awaiting" /\ thr[i].route = "/api/chat"
    /\ LET r == call_azure_openai(up, requests_build)
       IN thr' = [thr EXCEPT ![i].stage = "done", ![i].up = up,
                             ![i].resp = IF r.ok THEN chat_success(r.value)
                                         ELSE chat_except(r.exc)]
    /\ UNCHANGED <<phase, azure_connected, flagWrites, selfTest, requests_build, selfTestPosts>>

\* a plausible change: /api/test short-circuits like /api/chat
test_call_guarded(i) ==
    /\ thr[i].stage = "start" /\ thr[i].route = "/api/test"
    /\ IF azure_connected # "True"
         THEN Finish(i, Resp(500, "-", "False", "-", NOT_CONNECTED_REPLY))
         ELSE thr' = [thr EXCEPT ![i].stage = "awaiting", ![i].msg = TEST_PROMPT,
                                 ![i].calls = @ + 1]
    /\ UNCHANGED <<phase, azure_connected, flagWrites, selfTest, requests_build, selfTestPosts>>

\* lines 144-145: the test call is issued
test_call(i) ==
    /\ thr[i].stage = "start" /\ thr[i].route = "/api/test"
    /\ thr' = [thr EXCEPT ![i].stage = "awaiting", ![i].msg = TEST_PROMPT,
                          ![i].calls = @ + 1]
    /\ UNCHANGED <<phase, azure_connected, flagWrites, selfTest, requests_build, selfTestPosts>>

\* a plausible change: a successful test call refreshes the flag
test_return_refresh(i, up) ==
    /\ thr[i].stage = "awaiting" /\ thr[i].route = "/api/test"
    /\ LET r == call_azure_openai(up, requests_build)
       IN /\ thr' = [thr EXCEPT ![i].stage = "done", ![i].up = up,
                                ![i].resp = test_response(r)]
          /\ azure_connected' = IF r.ok THEN "True" ELSE azure_connected
    /\ UNCHANGED <<phase, flagWrites, selfTest, requests_build, selfTestPosts>>

\* lines 145-155
test_return(i, up) ==
    /\ thr[i].stage = "awaiting" /\ thr[i].route = "/api/test"
    /\ thr' = [thr EXCEPT ![i].stage = "done", ![i].up = up,
                          ![i].resp = test_response(call_azure_openai(up, requests_build))]
    /\ UNCHANGED <<phase, azure_connected, flagWrites, selfTest, requests_build, selfTestPosts>>

Next ==
    \/ StartupCall
    \/ \E up \in Upstreams : StartupDone(up)
    \/ AppRun
    \/ \E i \in Threads, route \in Routes, body \in ChatBodies \cup {NoBody} :
          Accept(i, route, body)
    \/ \E i \in Threads : home(i)
    \/ \E i \in Threads : health_check(i)
    \/ \E i \in Threads : chat_call(i)
    \/ \E i \in Threads, up \in Upstreams : chat_return(i, up)
    \/ \E i \in Threads : test_call(i)
    \/ \E i \in Threads, up \in Upstreams : test_return(i, up)

Spec == Init /\ [][Next]_vars

\* ---------------------------------------------------- claim vocabulary
Contains(seq, sub) ==
    \E k \in 0..(Len(seq) - Len(sub)) : SubSeq(seq, k + 1, k + Len(sub)) = sub

\* the upstream answered 2xx with a body holding choices[0].message.content
UpstreamSucceeds(up) ==
    /\ up.net = "ok" /\ up.status < 400 /\ up.json = "object"
    /\ up.choices = "one" /\ up.message = "present" /\ up.content # "absent"

\* the upstream answered 2xx with a JSON object lacking an expected key
UpstreamLacksKey(up) ==
    /\ up.net = "ok" /\ up.status < 400 /\ up.json = "object"
    /\ \/ up.choices = "absent"
       \/ up.choices = "one" /\ up.message = "absent"
       \/ up.choices = "one" /\ up.message = "present" /\ up.content = "absent"

\* the upstream failed at the transport or answered non-2xx
UpstreamNetworkFailure(up) == up.net # "ok" \/ up.status >= 400

\* the content the upstream body carries, as a Python value
UpstreamContent(up) ==
    IF up.content = "text" THEN Str(<<"Try X">>)
    ELSE IF up.content = "empty" THEN Str(<<>>)
    ELSE None

FixedNotConnected ==
    [code |-> 500, status |-> "error", success |-> "-", azure_openai |-> "-",
     text |-> Str(<<"Azure OpenAI is not connected. Please check your configuration.">>)]

IsDone(i, route) == thr[i].route = route /\ thr[i].stage = "done"
InFlightOrDone(i, route) ==
    thr[i].route = route /\ thr[i].stage \in {"awaiting", "done"}

\* ------------------------------------------------------------- claims

\* C1: while azure_connected is False, every POST /api/chat, whatever its
\* body, answers 500 / "error" / the fixed not-connected reply, and issues no
\* completion call (it never waits on the upstream).
C1_NotConnectedShortCircuits ==
    azure_connected = "False" =>
        \A i \in Threads : thr[i].route = "/api/chat" =>
            /\ thr[i].calls = 0
            /\ thr[i].stage # "awaiting"
            /\ thr[i].stage = "done" => thr[i].resp = FixedNotConnected

\* C1 witness: the flag is False, two chats with different bodies (one not
\* even JSON) have both been answered.
C1_Witness ==
    /\ azure_connected = "False"
    /\ \E i, j \in Threads :
          /\ IsDone(i, "/api/chat") /\ thr[i].body = BodyText
          /\ IsDone(j, "/api/chat") /\ thr[j].body = BodyNotJSON

\* C2: when the completion call made for a chat fails, whatever the kind of
\* failure, the chat answers 500 / "error" with a reply that contains the
\* description raised by call_azure_openai.
C2_UpstreamFailureIs500 ==
    \A i \in Threads :
        (IsDone(i, "/api/chat") /\ thr[i].calls >= 1 /\ ~UpstreamSucceeds(thr[i].up)) =>
            LET d == call_azure_openai(thr[i].up, requests_build).exc.msg
            IN /\ thr[i].resp.code = 500
               /\ thr[i].resp.status = "error"
               /\ thr[i].resp.text.t = "str"
               /\ Len(d) > 0
               /\ Contains(thr[i].resp.text.s, d)

\* C2 witness: two chats whose completion calls failed in different ways (a
\* body that is not JSON, an empty choices list) have been answered.
C2_Witness ==
    \E i, j \in Threads :
        /\ IsDone(i, "/api/chat") /\ thr[i].calls = 1 /\ thr[i].up = UpBadJSON
        /\ IsDone(j, "/api/chat") /\ thr[j].calls = 1 /\ thr[j].up = UpEmptyChoices

\* C3 as stated: when the completion call succeeds, the chat answers 200 /
\* "success" with a non-empty reply.
C3_ReplyNonEmpty ==
    \A i \in Threads :
        (IsDone(i, "/api/chat") /\ thr[i].calls = 1 /\ UpstreamSucceeds(thr[i].up)) =>
            /\ thr[i].resp.code = 200
            /\ thr[i].resp.status = "success"
            /\ thr[i].resp.text.t = "str"
            /\ Len(thr[i].resp.text.s) > 0

\* C3 amended: when the completion call succeeds, the chat answers 200 /
\* "success" with the upstream's choices[0].message.content as the reply; the
\* reply is a non-empty string exactly when that content is one.
C3_ReplyIsUpstreamContent ==
    \A i \in Threads :
        (IsDone(i, "/api/chat") /\ thr[i].calls = 1 /\ UpstreamSucceeds(thr[i].up)) =>
            /\ thr[i].resp.code = 200
            /\ thr[i].resp.status = "success"
            /\ thr[i].resp.text = UpstreamContent(thr[i].up)
            /\ (thr[i].resp.text.t = "str" /\ Len(thr[i].resp.text.s) > 0)
                   <=> thr[i].up.content = "text"

\* C3 witness: the spec's example, "recommend a comedy" answered "Try X".
C3_Witness ==
    \E i \in Threads :
        /\ IsDone(i, "/api/chat") /\ thr[i].body = BodyText /\ thr[i].up = UpOK
        /\ thr[i].msg = Str(<<"recommend a comedy">>)
        /\ thr[i].resp.text = Str(<<"Try X">>)

\* C4: every answer of GET / and of GET /api/health is a 200 whose
\* azure_openai field renders the current flag, so the two routes agree;
\* neither handler changes the flag or issues a completion call.
C4_AnswersAgree ==
    /\ \A i \in Threads :
          (IsDone(i, "/") \/ IsDone(i, "/api/health")) =>
              /\ thr[i].resp.code = 200
              /\ thr[i].calls = 0
              /\ azure_connected \in {"True", "False"}
              /\ thr[i].resp.azure_openai =
                     (IF azure_connected = "True" THEN "Connected" ELSE "Not connected")
    /\ \A i, j \in Threads :
          (IsDone(i, "/") /\ IsDone(j, "/api/health")) =>
              thr[i].resp.azure_openai = thr[j].resp.azure_openai

C4_NoSideEffect ==
    \A i \in Threads :
        (thr[i].route \in {"/", "/api/health"} /\ thr[i].stage = "start"
            /\ thr'[i].stage = "done") =>
            /\ azure_connected' = azure_connected
            /\ flagWrites' = flagWrites
            /\ selfTestPosts' = selfTestPosts
            /\ \A j \in Threads : thr'[j].calls = thr[j].calls

\* C4: GET / and GET /api/health always answer 200 with the same rendering
\* of the flag, and a step of either handler changes neither the flag nor
\* any count of completion calls.
C4_HomeAndHealthAgree == []C4_AnswersAgree /\ [][C4_NoSideEffect]_vars

\* C4 witness: with the flag False both routes have answered "Not connected".
C4_Witness ==
    /\ azure_connected = "False"
    /\ \E i, j \in Threads :
          /\ IsDone(i, "/") /\ thr[i].resp.azure_openai = "Not connected"
          /\ IsDone(j, "/api/health") /\ thr[j].resp.azure_openai = "Not connected"

\* C5: with the flag True, a chat whose JSON body has no message field issues
\* the completion call with user message "", and its answer follows the
\* upstream outcome exactly as the answer to a chat that carried a message.
C5_MissingMessageIsEmpty ==
    \A i \in Threads :
        (InFlightOrDone(i, "/api/chat") /\ thr[i].body = BodyNoMessage
            /\ azure_connected = "True") =>
            /\ thr[i].calls = 1
            /\ thr[i].msg = Str(<<>>)
            /\ thr[i].stage = "done" =>
                  /\ UpstreamSucceeds(thr[i].up) =>
                        thr[i].resp.code = 200 /\ thr[i].resp.status = "success"
                  /\ ~UpstreamSucceeds(thr[i].up) =>
                        thr[i].resp.code = 500 /\ thr[i].resp.status = "error"
                  /\ \A j \in Threads :
                        (IsDone(j, "/api/chat") /\ thr[j].body = BodyText
                            /\ thr[j].up = thr[i].up) => thr[j].resp = thr[i].resp

\* C5 witness: a chat without a message field and a chat with one got the
\* same upstream answer and have both been answered.
C5_Witness ==
    \E i, j \in Threads :
        /\ IsDone(i, "/api/chat") /\ thr[i].body = BodyNoMessage
        /\ IsDone(j, "/api/chat") /\ thr[j].body = BodyText
        /\ thr[i].up = UpOK /\ thr[j].up = UpOK
        /\ thr[i].resp.code = 200

\* C6: azure_connected is assigned exactly once, by the startup self-test;
\* once serving, no step of any handler changes it, so a failed self-test
\* leaves /api/chat disabled whatever later calls return.
C6_BoundOnce ==
    /\ flagWrites <= 1
    /\ phase \in {"import", "selftest"} => flagWrites = 0 /\ azure_connected = "unbound"
    /\ phase \in {"loaded", "serving"} =>
          /\ flagWrites = 1
          /\ azure_connected = (IF selfTest = "returned" THEN "True" ELSE "False")
    /\ selfTest = "raised" =>
          \A i \in Threads :
              IsDone(i, "/api/chat") => thr[i].resp = FixedNotConnected

C6_HandlersKeepFlag ==
    phase = "serving" => azure_connected' = azure_connected /\ flagWrites' = flagWrites

\* C6: azure_connected is bound exactly once, at startup, and no step taken
\* while serving changes it; after a failed self-test every chat is refused.
C6_FlagWrittenOnce == []C6_BoundOnce /\ [][C6_HandlersKeepFlag]_vars

\* C6 witness: the self-test failed, a later /api/test call succeeded, and a
\* chat was still refused.
C6_Witness ==
    /\ selfTest = "raised" /\ azure_connected = "False"
    /\ \E i, j \in Threads :
          /\ IsDone(i, "/api/test") /\ thr[i].resp.success = "True"
          /\ IsDone(j, "/api/chat") /\ thr[j].resp.code = 500

\* C7: before any request is handled the module has issued exactly one
\* self-test call and bound azure_connected to True iff that call returned;
\* no handler runs with the flag unbound, and a self-test that raised still
\* lets the process start serving.
C7_StartupSelfTest ==
    /\ selfTestPosts <= 1
    /\ phase = "import" <=> selfTestPosts = 0
    /\ phase \in {"loaded", "serving"} =>
          /\ selfTestPosts = 1
          /\ flagWrites = 1
          /\ selfTest \in {"returned", "raised"}
          /\ azure_connected = "True" <=> selfTest = "returned"
          /\ azure_connected = "False" <=> selfTest = "raised"
    /\ \A i \in Threads :
          thr[i].stage # "idle" => phase = "serving" /\ azure_connected # "unbound"
    /\ phase = "selftest" => \A up \in Upstreams : ENABLED StartupDone(up)
    /\ phase = "loaded" => ENABLED AppRun

\* C7 witness: the self-test raised and the process is serving, a request
\* has been answered.
C7_Witness ==
    /\ phase = "serving" /\ selfTest = "raised" /\ selfTestPosts = 1
    /\ \E i \in Threads : thr[i].stage = "done"

\* C8: no request issues more than one requests.post: a chat issues one when
\* the flag is True and the message can be read from its body and none
\* otherwise, /api/test issues one, the other routes none; a failed call
\* ends the request with one textual error.
C8_NoRetries ==
    /\ selfTestPosts <= 1
    /\ \A i \in Threads :
          /\ thr[i].calls <= 1
          /\ InFlightOrDone(i, "/api/chat") =>
                thr[i].calls =
                    (IF azure_connected = "True" /\ thr[i].body.json = "object"
                     THEN 1 ELSE 0)
          /\ InFlightOrDone(i, "/api/test") => thr[i].calls = 1
          /\ thr[i].route \in {"/", "/api/health"} => thr[i].calls = 0
          /\ (thr[i].stage = "done" /\ thr[i].calls = 1
                 /\ ~UpstreamSucceeds(thr[i].up)) =>
                /\ thr[i].resp.code = 500
                /\ thr[i].resp.text.t = "str"
                /\ Len(thr[i].resp.text.s) > 0

\* C8 witness: a chat whose single completion call timed out has been
\* answered, and so has a chat whose body could not be read.
C8_Witness ==
    \E i, j \in Threads :
        /\ IsDone(i, "/api/chat") /\ thr[i].calls = 1 /\ thr[i].up = UpTimeout
        /\ IsDone(j, "/api/chat") /\ thr[j].calls = 0 /\ thr[j].body = BodyArray
        /\ azure_connected = "True"

\* C9 as stated: a network, timeout or non-2xx failure raises "Network error: "
\* followed by the cause; a body lacking choices, message or content raises
\* "Invalid response format from Azure OpenAI"; every other failure
\* propagates unchanged and is reported as neither.  Read off /api/test,
\* whose error field is the text of the exception call_azure_openai raised.
C9_Classification ==
    \A i \in Threads :
        (IsDone(i, "/api/test") /\ ~UpstreamSucceeds(thr[i].up)) =>
            LET t == thr[i].resp.text.s
                up == thr[i].up
            IN IF UpstreamNetworkFailure(up)
                 THEN /\ Len(t) = 2
                      /\ t[1] = "Network error: "
                      /\ t[2] = (IF up.net # "ok" THEN up.net ELSE "Server Error")
               ELSE IF UpstreamLacksKey(up)
                 THEN t = <<"Invalid response format from Azure OpenAI">>
               ELSE /\ t # <<"Invalid response format from Azure OpenAI">>
                    /\ ~Contains(t, <<"Network error: ">>)
                    /\ t = (CASE up.json = "invalid" -> <<"Expecting value">>
                              [] up.json = "array" -> <<"list indices must be integers">>
                              [] OTHER -> <<"list index out of range">>)

\* C9, the part the code meets: the same classification for every failure
\* other than a body that cannot be decoded as JSON.
C9_ExceptUndecodableBody ==
    \A i \in Threads :
        (IsDone(i, "/api/test") /\ ~UpstreamSucceeds(thr[i].up)
            /\ thr[i].up.json # "invalid") =>
            LET t == thr[i].resp.text.s
                up == thr[i].up
            IN IF UpstreamNetworkFailure(up)
                 THEN /\ Len(t) = 2
                      /\ t[1] = "Network error: "
                      /\ t[2] = (IF up.net # "ok" THEN up.net ELSE "Server Error")
               ELSE IF UpstreamLacksKey(up)
                 THEN t = <<"Invalid response format from Azure OpenAI">>
               ELSE /\ t # <<"Invalid response format from Azure OpenAI">>
                    /\ ~Contains(t, <<"Network error: ">>)
                    /\ t = (IF up.json = "array"
                            THEN <<"list indices must be integers">>
                            ELSE <<"list index out of range">>)

\* C10: GET /api/test always issues the completion call, whatever the flag,
\* and answers 200 / success true / the model's reply when it returns and
\* 500 / success false / the error text when it raises.
C10_TestNeverShortCircuited ==
    \A i \in Threads :
        /\ InFlightOrDone(i, "/api/test") =>
              thr[i].calls = 1 /\ thr[i].msg = Str(<<"What are 2 popular movies on Netflix?">>)
        /\ IsDone(i, "/api/test") =>
              IF UpstreamSucceeds(thr[i].up)
                THEN /\ thr[i].resp.code = 200
                     /\ thr[i].resp.success = "True"
                     /\ thr[i].resp.text = UpstreamContent(thr[i].up)
                ELSE /\ thr[i].resp.code = 500
                     /\ thr[i].resp.success = "False"
                     /\ thr[i].resp.text =
                            Str(call_azure_openai(thr[i].up, requests_build).exc.msg)
                     /\ Len(thr[i].resp.text.s) > 0

\* C10 witness: /api/test answered success true while /api/health answers
\* "Not connected".
C10_Witness ==
    /\ azure_connected = "False"
    /\ \E i, j \in Threads :
          /\ IsDone(i, "/api/test") /\ thr[i].resp.success = "True"
                /\ thr[i].resp.code = 200
          /\ IsDone(j, "/api/health") /\ thr[j].resp.azure_openai = "Not connected"

\* C10, the other two states the claim names: /api/test answered success
\* true while a chat got the fixed not-connected 500; /api/test answered
\* success false while /api/health answers "Connected".
C10_TestOkChatRefused ==
    \E i, j \in Threads :
        /\ IsDone(i, "/api/test") /\ thr[i].resp.success = "True"
        /\ IsDone(j, "/api/chat") /\ thr[j].resp = FixedNotConnected

C10_TestFailsHealthConnected ==
    \E i, j \in Threads :
        /\ IsDone(i, "/api/test") /\ thr[i].resp.success = "False"
              /\ thr[i].resp.code = 500
        /\ IsDone(j, "/api/health") /\ thr[j].resp.azure_openai = "Connected"

====
